---- MODULE Spec2Model ----
(***************************************************************************)
(* Model of the Photoprotection Catalogue (src/app.py).                    *)
(*                                                                         *)
(* Text is a sequence of one-character strings, so that trimming, suffix   *)
(* removal, case folding and number parsing are computed character by      *)
(* character as the Python code computes them.  A table (pandas DataFrame) *)
(* is a record [cols, rows]: cols the ordered column names, rows the       *)
(* ordered rows, each row the sequence of its cells in column order.  A    *)
(* table may have rows and no columns (every row is then <<>>), which is   *)
(* what df.iloc[:, 0:0] yields.                                            *)
(*                                                                         *)
(* A float is a record [k, n, d]: k = "num" with the reduced fraction n/d, *)
(* k = "inf" with the sign in n, k = "nan", or k = "None" for Python None. *)
(* Rounding to binary doubles is not modelled: fractions are exact.        *)
(***************************************************************************)
EXTENDS Integers, Sequences, FiniteSets, TLC

VARIABLES pc, arg, ret,
          source, cache, reads, runs, suns, cloth, errors, chosen, show_all, out

vars == <<pc, arg, ret, source, cache, reads, runs, suns, cloth, errors,
          chosen, show_all, out>>

appVars == <<source, cache, reads, runs, suns, cloth, errors, chosen, show_all, out>>

\* ------------------------------------------------------------------ bounds

\* Longest text enumerated exhaustively over Alphabet for to_float.
MaxLen == 4

\* The application's variables when only a function is exercised.
NoApp ==
    /\ source = <<>> /\ cache = <<>> /\ reads = <<>> /\ runs = 0
    /\ suns = <<>> /\ cloth = <<>> /\ errors = <<>>
    /\ chosen = <<>> /\ show_all = <<>> /\ out = <<>>

\* ------------------------------------------------------------------ text

Alphabet == {"5", "0", ".", "+", "-", "%", " ", "n", "a", "N", "i", "f"}

DigitChars == {"0", "1", "2", "3", "4", "5", "6", "7", "8", "9"}

DigitVal(c) ==
    CASE c = "0" -> 0 [] c = "1" -> 1 [] c = "2" -> 2 [] c = "3" -> 3
      [] c = "4" -> 4 [] c = "5" -> 5 [] c = "6" -> 6 [] c = "7" -> 7
      [] c = "8" -> 8 [] c = "9" -> 9

\* str.lower() on one character (the letters the inputs use in upper case).
LowerChar(c) ==
    CASE c = "N" -> "n" [] c = "A" -> "a" [] c = "O" -> "o" [] c = "E" -> "e"
      [] c = "I" -> "i" [] c = "F" -> "f" [] OTHER -> c

Lower(s) == [i \in 1..Len(s) |-> LowerChar(s[i])]

Whitespace == {" "}

RECURSIVE LStripSet(_, _)
LStripSet(s, chars) ==
    IF s # <<>> /\ Head(s) \in chars THEN LStripSet(Tail(s), chars) ELSE s

RECURSIVE RStripSet(_, _)
RStripSet(s, chars) ==
    IF s # <<>> /\ s[Len(s)] \in chars
    THEN RStripSet(SubSeq(s, 1, Len(s) - 1), chars)
    ELSE s

\* str.strip(chars): removes every leading and trailing character in chars.
StripSet(s, chars) == RStripSet(LStripSet(s, chars), chars)

\* str.strip(): removes leading and trailing whitespace.
Strip(s) == StripSet(s, Whitespace)

EndsWith(s, c) == s # <<>> /\ s[Len(s)] = c

DropLast(s) == SubSeq(s, 1, Len(s) - 1)

\* Every sequence over S of length at most n.
SeqsUpTo(S, n) == UNION {[1..k -> S] : k \in 0..n}

\* ------------------------------------------------------------------ floats

None == [k |-> "None", n |-> 0, d |-> 1]
NaN == [k |-> "nan", n |-> 0, d |-> 1]
Inf(sign) == [k |-> "inf", n |-> sign, d |-> 1]

Abs(x) == IF x < 0 THEN -x ELSE x

RECURSIVE Gcd(_, _)
Gcd(a, b) == IF b = 0 THEN a ELSE Gcd(b, a % b)

\* The float with value n/d (d > 0), as a reduced fraction.
Num(n, d) ==
    LET g == Gcd(Abs(n), d)
    IN  [k |-> "num", n |-> n \div g, d |-> d \div g]

RECURSIVE Pow10(_)
Pow10(e) == IF e = 0 THEN 1 ELSE 10 * Pow10(e - 1)

RECURSIVE DigitsValue(_)
DigitsValue(s) ==
    IF s = <<>> THEN 0 ELSE 10 * DigitsValue(DropLast(s)) + DigitVal(s[Len(s)])

Count(s, c) == Cardinality({i \in 1..Len(s) : s[i] = c})

Without(s, c) == SelectSeq(s, LAMBDA x : x # c)

\* Digits after the point.
FracLen(s) ==
    IF Count(s, ".") = 0 THEN 0
    ELSE Len(s) - (CHOOSE i \in 1..Len(s) : s[i] = ".")

\* An unsigned literal float() accepts: digits with at most one point and at
\* least one digit.  (Exponents and digit-group underscores need "e" or "_"
\* beside a digit, which no input drawn here has.)
IsFloatLiteral(s) ==
    /\ \A i \in 1..Len(s) : s[i] \in DigitChars \cup {"."}
    /\ Count(s, ".") <= 1
    /\ \E i \in 1..Len(s) : s[i] \in DigitChars

SpecialNames == {<<"i", "n", "f">>, <<"n", "a", "n">>,
                 <<"i", "n", "f", "i", "n", "i", "t", "y">>}

\* Python's float(str): surrounding whitespace ignored, an optional sign, then
\* "inf", "infinity" or "nan" in any case, or a literal; None stands for the
\* ValueError the caller catches.
PyFloat(s) ==
    LET t == Strip(s)
        signed == t # <<>> /\ t[1] \in {"+", "-"}
        sign == IF signed /\ t[1] = "-" THEN -1 ELSE 1
        body == IF signed THEN Tail(t) ELSE t
    IN  IF Lower(body) \in SpecialNames
        THEN IF Lower(body) = <<"n", "a", "n">> THEN NaN ELSE Inf(sign)
        ELSE IF IsFloatLiteral(body)
        THEN Num(sign * DigitsValue(Without(body, ".")), Pow10(FracLen(body)))
        ELSE None

Markers == {<<"n", "a">>, <<"n", "/", "a">>, <<"n", "o", "n", "e">>}

StripPlus(s) == IF EndsWith(s, "+") THEN DropLast(s) ELSE s

StripPercent(s) == IF EndsWith(s, "%") THEN DropLast(s) ELSE s

\* A value handed to to_float: Python None, or text.
NoneValue == [isNone |-> TRUE, text |-> <<>>]
Text(s) == [isNone |-> FALSE, text |-> s]

to_float(value) ==
    IF value.isNone THEN None
    ELSE LET s == Strip(value.text)
         IN  IF s = <<>> \/ Lower(s) \in Markers THEN None
             ELSE PyFloat(StripPercent(StripPlus(s)))

\* ------------------------------------------------------------------ rows

COL_BRAND == "Product Brand"
COL_NAME == "Product Name"
COL_VOL == "Volume (ml)"
COL_MATERIAL == "Material"

\* The em dash of the label separator, as one character.
Dash == "--"

Sep == <<" ", Dash, " ">>

\* row.get(col, ""): the row's cell under col, "" when the row has no such
\* column.  A row is a record [cols, cells].
Get(row, col) ==
    IF \E i \in 1..Len(row.cols) : row.cols[i] = col
    THEN row.cells[CHOOSE i \in 1..Len(row.cols) : row.cols[i] = col]
    ELSE <<>>

\* " — ".join(parts)
RECURSIVE Join(_)
Join(parts) ==
    IF parts = <<>> THEN <<>>
    ELSE IF Len(parts) = 1 THEN parts[1]
    ELSE parts[1] \o Sep \o Join(Tail(parts))

\* The loop over row.values: the first cell that is not blank, untrimmed.
RECURSIVE FirstNonBlank(_)
FirstNonBlank(cells) ==
    IF cells = <<>> THEN <<>>
    ELSE IF Strip(Head(cells)) # <<>> THEN Head(cells)
    ELSE FirstNonBlank(Tail(cells))

NanText == <<"n", "a", "n">>

LabelExtra(row, kind) ==
    IF kind = "sun"
    THEN LET vol == Strip(Get(row, COL_VOL))
         IN  IF vol # <<>> /\ Lower(vol) # NanText
             THEN Sep \o vol \o <<" ", "m", "l">>
             ELSE <<>>
    ELSE IF kind = "cloth"
    THEN LET mat == Strip(Get(row, COL_MATERIAL))
         IN  IF mat # <<>> /\ Lower(mat) # NanText THEN Sep \o mat ELSE <<>>
    ELSE <<>>

\* make_label joining brand and name without leaving out an empty side.
make_label_KeepEmptySide(row, kind) ==
    LET brand == Strip(Get(row, COL_BRAND))
        name == Strip(Get(row, COL_NAME))
        joined == IF brand = <<>> /\ name = <<>> THEN <<>> ELSE Join(<<brand, name>>)
        label == IF joined = <<>> THEN FirstNonBlank(row.cells) ELSE joined
    IN  StripSet(label \o LabelExtra(row, kind), {" ", Dash})

make_label(row, kind) ==
    LET brand == Strip(Get(row, COL_BRAND))
        name == Strip(Get(row, COL_NAME))
        joined == Join(SelectSeq(<<brand, name>>, LAMBDA x : x # <<>>))
        label == IF joined = <<>> THEN FirstNonBlank(row.cells) ELSE joined
    IN  StripSet(label \o LabelExtra(row, kind), {" ", Dash})

\* ------------------------------------------------------------------ make_label spec

LabelLayouts == {<<COL_BRAND, COL_NAME, COL_VOL>>,
                 <<COL_BRAND, COL_NAME, COL_MATERIAL>>,
                 <<"Notes", COL_NAME, COL_VOL>>,
                 <<COL_VOL, COL_BRAND>>,
                 <<"Notes", COL_MATERIAL>>,
                 <<>>}

LabelCells == {<<>>, <<" ">>, <<"A">>, <<" ", "S", " ">>, <<"5", "0">>,
               <<"n", "a", "n">>, <<"N", "a", "N">>, <<Dash, "x", " ">>}

RowsOver(cols, cellSet) ==
    {[cols |-> cols, cells |-> c] : c \in [1..Len(cols) -> cellSet]}

InitLabel ==
    /\ pc = "call"
    /\ \E cols \in LabelLayouts, kind \in {"sun", "cloth"} :
          \E row \in RowsOver(cols, LabelCells) :
              arg = [row |-> row, kind |-> kind]
    /\ ret = <<>>
    /\ NoApp

CallLabel ==
    /\ pc = "call"
    /\ ret' = make_label(arg.row, arg.kind)
    /\ pc' = "done"
    /\ UNCHANGED <<arg, appVars>>

NextLabel == CallLabel

SpecLabel == InitLabel /\ [][NextLabel]_vars

\* ------------------------------------------------------------------ comparison builders

COL_SPF == "SPF (lab)"
COL_UVA == "UVA Protection (Lab)"
COL_BL == "Blue Light Protection (lab)"
COL_VIS == "Visible Protection (lab)"
\* The price column, "Price (£)" in the sheet.
COL_PRICE == "Price (GBP)"
COL_IMAGE == "Image"

\* df.empty: no rows or no columns.
IsEmpty(df) == Len(df.rows) = 0 \/ Len(df.cols) = 0

\* The i-th row of df as df.iterrows() yields it.
RowAt(df, i) == [cols |-> df.cols, cells |-> df.rows[i]]

\* to_float(row.get(col, ""))
Metric(row, col) == to_float(Text(Get(row, col)))

\* price / vol on floats (vol is neither None nor zero).  The quotient is
\* exact: a finite quotient too large for a double is not modelled.
FloatDiv(a, b) ==
    IF a.k = "nan" \/ b.k = "nan" THEN NaN
    ELSE IF a.k = "inf"
    THEN IF b.k = "inf" THEN NaN ELSE Inf(IF b.n < 0 THEN -a.n ELSE a.n)
    ELSE IF b.k = "inf" THEN Num(0, 1)
    ELSE Num((IF b.n < 0 THEN -1 ELSE 1) * a.n * b.d, a.d * Abs(b.n))

\* vol not in (None, 0)
NotNoneOrZero(v) == ~(v.k = "None" \/ (v.k = "num" /\ v.n = 0))

PricePerMl(price, vol) ==
    IF price.k # "None" /\ NotNoneOrZero(vol) THEN FloatDiv(price, vol) ELSE None

\* A value as pd.DataFrame(rows) holds it: None and NaN are both the frame's
\* missing value.
Frame(v) == IF v.k = "nan" THEN None ELSE v

SunRecord(row) ==
    [Product |-> make_label(row, "sun"),
     SPF_lab |-> Frame(Metric(row, COL_SPF)),
     UVA_PF_lab |-> Frame(Metric(row, COL_UVA)),
     Blue_light_lab |-> Frame(Metric(row, COL_BL)),
     Visible_lab |-> Frame(Metric(row, COL_VIS)),
     Price_per_ml |-> Frame(PricePerMl(Metric(row, COL_PRICE), Metric(row, COL_VOL)))]

ClothRecord(row) ==
    [Product |-> make_label(row, "cloth"),
     SPF_lab |-> Frame(Metric(row, COL_SPF)),
     UVA_PF_lab |-> Frame(Metric(row, COL_UVA)),
     Blue_light_lab |-> Frame(Metric(row, COL_BL)),
     Visible_lab |-> Frame(Metric(row, COL_VIS)),
     Price |-> Frame(Metric(row, COL_PRICE))]

build_sunscreen_comparison(df) ==
    IF IsEmpty(df) THEN <<>>
    ELSE [i \in 1..Len(df.rows) |-> SunRecord(RowAt(df, i))]

build_clothing_comparison(df) ==
    IF IsEmpty(df) THEN <<>>
    ELSE [i \in 1..Len(df.rows) |-> ClothRecord(RowAt(df, i))]

\* ------------------------------------------------------------------ comparison spec

\* Most rows of a table of at most one column.
MaxRows == 4

\* Most rows of a table of two columns.
MaxRowsWide == 2

NarrowLayouts == {<<>>, <<COL_PRICE>>, <<COL_VOL>>, <<COL_SPF>>, <<"Notes">>}

WideLayouts == {<<COL_PRICE, COL_VOL>>, <<COL_BRAND, COL_VOL>>,
                <<COL_UVA, COL_BL>>, <<COL_VIS, COL_PRICE>>}

FullLayout == <<COL_BRAND, COL_NAME, COL_SPF, COL_PRICE, COL_VOL>>

CompareCells == {<<>>, <<"2", "0">>, <<"1", "0", "0">>, <<"0">>,
                 <<"i", "n", "f">>, <<"a", "b", "c">>}

WideCells == {<<>>, <<"2", "0">>, <<"1", "0", "0">>, <<"0">>, <<"i", "n", "f">>}

\* The rows of the catalogue's worked example, and a row of blanks.
FullRows == {<<<<"A">>, <<"X">>, <<"3", "0">>, <<"1", "0">>, <<"5", "0">>>>,
             <<<<"B">>, <<"Y">>, <<"5", "0", "+">>, <<"2", "0">>, <<"1", "0", "0">>>>,
             <<<<>>, <<>>, <<"n", "/", "a">>, <<>>, <<" ">>>>}

TablesOver(cols, rowSet, maxRows) ==
    {[cols |-> cols, rows |-> r] : r \in SeqsUpTo(rowSet, maxRows)}

CompareTables(maxRows, maxRowsWide) ==
    UNION ({TablesOver(c, [1..Len(c) -> CompareCells], maxRows) : c \in NarrowLayouts}
           \cup {TablesOver(c, [1..Len(c) -> WideCells], maxRowsWide) : c \in WideLayouts}
           \cup {TablesOver(FullLayout, FullRows, maxRows)})

InitCompare ==
    /\ pc = "call"
    /\ \E df \in CompareTables(MaxRows, MaxRowsWide), kind \in {"sun", "cloth"} : arg = [df |-> df, kind |-> kind]
    /\ ret = <<>>
    /\ NoApp

CallSunscreenComparison ==
    /\ pc = "call"
    /\ arg.kind = "sun"
    /\ ret' = build_sunscreen_comparison(arg.df)
    /\ pc' = "done"
    /\ UNCHANGED <<arg, appVars>>

CallClothingComparison ==
    /\ pc = "call"
    /\ arg.kind = "cloth"
    /\ ret' = build_clothing_comparison(arg.df)
    /\ pc' = "done"
    /\ UNCHANGED <<arg, appVars>>

NextCompare == CallSunscreenComparison \/ CallClothingComparison

SpecCompare == InitCompare /\ [][NextCompare]_vars

\* ------------------------------------------------------------------ safe_select_columns

ColumnIndex(df, col) == CHOOSE j \in 1..Len(df.cols) : df.cols[j] = col

HasColumn(df, col) == \E j \in 1..Len(df.cols) : df.cols[j] = col

\* df[present]: the columns named by present, in that order, every row kept.
SelectColumns(df, present) ==
    [cols |-> present,
     rows |-> [i \in 1..Len(df.rows) |->
                  [j \in 1..Len(present) |-> df.rows[i][ColumnIndex(df, present[j])]]]]

\* safe_select_columns keeping the present columns in the table's own order.
safe_select_columns_TableOrder(df, cols) ==
    LET wanted == {cols[j] : j \in 1..Len(cols)}
    IN  SelectColumns(df, SelectSeq(df.cols, LAMBDA c : c \in wanted))

safe_select_columns(df, cols) ==
    LET present == SelectSeq(cols, LAMBDA c : HasColumn(df, c))
    IN  IF present = <<>>
        THEN [cols |-> <<>>, rows |-> [i \in 1..Len(df.rows) |-> <<>>]]
        ELSE SelectColumns(df, present)

\* ------------------------------------------------------------------ safe_select_columns spec

\* Most rows of a table handed to safe_select_columns.
MaxSelectRows == 2

\* Longest desired column list.
MaxDesired == 3

TableColumnNames == {"A", "B", "C"}

DesiredColumnNames == {"A", "B", "C", "Z"}

\* Column lists without a repeated name (read_excel never yields one).
SelectLayouts ==
    {c \in SeqsUpTo(TableColumnNames, Cardinality(TableColumnNames)) :
        \A i, j \in 1..Len(c) : i # j => c[i] # c[j]}

RowNumberText(i) == CASE i = 1 -> "1" [] i = 2 -> "2" [] i = 3 -> "3" [] OTHER -> "4"

\* A table whose cell under column c in row i is the text "<c><i>".
MarkedTable(cols, n) ==
    [cols |-> cols,
     rows |-> [i \in 1..n |-> [j \in 1..Len(cols) |-> <<cols[j], RowNumberText(i)>>]]]

InitSelect ==
    /\ pc = "call"
    /\ \E cols \in SelectLayouts, n \in 0..MaxSelectRows,
          desired \in SeqsUpTo(DesiredColumnNames, MaxDesired) :
          arg = [df |-> MarkedTable(cols, n), cols |-> desired]
    /\ ret = <<>>
    /\ NoApp

CallSelect ==
    /\ pc = "call"
    /\ ret' = safe_select_columns(arg.df, arg.cols)
    /\ pc' = "done"
    /\ UNCHANGED <<arg, appVars>>

NextSelect == CallSelect

SpecSelect == InitSelect /\ [][NextSelect]_vars

\* ------------------------------------------------------------------ to_float

\* Cell texts from the documentation of to_float and from the catalogue's
\* worked examples, beside the exhaustive texts over Alphabet.
Samples == {<<"5", "0", "+">>, <<"1", "2", "%">>, <<"a", "b", "c">>,
            <<"N", "/", "A">>, <<"n", "/", "a">>, <<"n", "o", "n", "e">>,
            <<"N", "o", "n", "e">>, <<"N", "A">>, <<"2", "0">>,
            <<"1", "0", "0">>, <<"5", "0", "+", "%">>, <<"1", "2", "%", "+">>,
            <<" ", "5", "0", "+", " ">>, <<"0", ".", "2">>, <<"-", "2", ".", "5", "%">>,
            <<"I", "n", "f">>, <<"5", "0", "+", "+">>}

ToFloatInputs(maxLen) ==
    {NoneValue} \cup {Text(s) : s \in SeqsUpTo(Alphabet, maxLen) \cup Samples}

InitToFloat ==
    /\ pc = "call"
    /\ arg \in ToFloatInputs(MaxLen)
    /\ ret = None
    /\ NoApp

CallToFloat ==
    /\ pc = "call"
    /\ ret' = to_float(arg)
    /\ pc' = "done"
    /\ UNCHANGED <<arg, appVars>>

NextToFloat == CallToFloat

SpecToFloat == InitToFloat /\ [][NextToFloat]_vars

\* ------------------------------------------------------------------ the application

SHEET_SUN == "Sunscreens"
SHEET_CLO == "Clothing"

Sheets == {SHEET_SUN, SHEET_CLO}

SUN_DISPLAY_COLS == <<COL_BRAND, COL_NAME, COL_PRICE, COL_VOL, "Price / ml", COL_SPF,
                      COL_UVA, COL_BL, COL_VIS, COL_IMAGE>>

CLO_DISPLAY_COLS == <<COL_BRAND, COL_NAME, COL_PRICE, COL_SPF, COL_UVA, COL_BL,
                      COL_VIS, COL_IMAGE>>

\* max_selections of both multiselect widgets.
MAX_SELECTIONS == 3

\* Script runs of one session (page load, then one per interaction).
MaxRuns == 4

\* pd.DataFrame()
EmptyTable == [cols |-> <<>>, rows |-> <<>>]

\* A cell the spreadsheet leaves empty, as read_excel reports it before fillna.
MissingCell == <<"<NA>">>

\* pd.read_excel(..., dtype=str) followed by fillna("") and the header
\* conversion: every missing cell becomes the empty text.
ReadExcel(raw) ==
    [cols |-> raw.cols,
     rows |-> [i \in 1..Len(raw.rows) |->
                 [j \in 1..Len(raw.cols) |->
                     IF raw.rows[i][j] = MissingCell THEN <<>> ELSE raw.rows[i][j]]]]

Unreadable == [ok |-> FALSE, df |-> EmptyTable]

Readable(df) == [ok |-> TRUE, df |-> df]

AppLayout == <<COL_BRAND, COL_VOL, COL_MATERIAL, COL_PRICE, COL_IMAGE>>

\* Sunscreen sheets: one with two rows of the same brand and volume, one with
\* two distinct products, one with headers only.
SunSheets ==
    {[cols |-> AppLayout,
      rows |-> << <<<<"A">>, <<"5", "0">>, MissingCell, <<"1", "0">>, <<"a", ".", "p">>>>,
                  <<<<"A">>, <<"5", "0">>, MissingCell, <<"2", "0">>, MissingCell>>,
                  <<<<"B">>, <<"N", "a", "N">>, MissingCell, <<"2", "0">>, <<"b", ".", "p">>>>,
                  <<MissingCell, <<"0">>, MissingCell, <<"i", "n", "f">>, <<" ">>>> >>],
     [cols |-> AppLayout,
      rows |-> << <<<<"A">>, <<"5", "0">>, MissingCell, <<"1", "0">>, MissingCell>>,
                  <<<<"B">>, <<"1", "0", "0">>, MissingCell, <<"2", "0">>, <<"b", ".", "p">>>> >>],
     [cols |-> AppLayout, rows |-> <<>>]}

ClothSheets ==
    {[cols |-> <<COL_NAME, COL_MATERIAL, COL_PRICE>>,
      rows |-> << <<<<"H">>, <<"c">>, <<"5">>>>,
                  <<<<"H">>, <<"w">>, <<"n", "/", "a">>>> >>]}

SheetsOf(sheet) == IF sheet = SHEET_SUN THEN SunSheets ELSE ClothSheets

Kind(sheet) == IF sheet = SHEET_SUN THEN "sun" ELSE "cloth"

DisplayCols(sheet) == IF sheet = SHEET_SUN THEN SUN_DISPLAY_COLS ELSE CLO_DISPLAY_COLS

\* The module-level table of a category.
TableOf(sheet) == IF sheet = SHEET_SUN THEN suns ELSE cloth

\* @st.cache_data load_sheet(path, sheet): a stored result is returned
\* without reading; otherwise the source is read, a result is stored, and an
\* exception is raised and nothing stored when the read fails.
load_sheet_NoCache(sheet) ==
    IF source[sheet].ok
    THEN [raised |-> FALSE, read |-> TRUE, df |-> ReadExcel(source[sheet].df)]
    ELSE [raised |-> TRUE, read |-> TRUE, df |-> EmptyTable]

load_sheet(sheet) ==
    IF cache[sheet].hit
    THEN [raised |-> FALSE, read |-> FALSE, df |-> cache[sheet].df]
    ELSE IF source[sheet].ok
    THEN [raised |-> FALSE, read |-> TRUE, df |-> ReadExcel(source[sheet].df)]
    ELSE [raised |-> TRUE, read |-> TRUE, df |-> EmptyTable]

\* The except branch without its st.error call.
SurfacedErrors_Silent(sheet, result) == errors

\* try: ... except Exception as e: st.error(...)
SurfacedErrors(sheet, result) ==
    IF result.raised THEN Append(errors, sheet) ELSE errors

\* df.apply(lambda r: make_label(r, kind), axis=1)
Labels(df, kind) == [i \in 1..Len(df.rows) |-> make_label(RowAt(df, i), kind)]

\* The increasing sequence of the members of a set of row numbers.
RECURSIVE Ascending(_)
Ascending(S) ==
    IF S = {} THEN <<>>
    ELSE LET m == CHOOSE x \in S : \A y \in S : x <= y
         IN  <<m>> \o Ascending(S \ {m})

\* The view keeping only the first row of each chosen label.
ViewIndex_FirstMatch(df, kind, sel, all) ==
    LET labels == Labels(df, kind)
    IN  IF all THEN [i \in 1..Len(df.rows) |-> i]
        ELSE Ascending({i \in 1..Len(df.rows) :
                           /\ labels[i] \in sel
                           /\ \A j \in 1..(i - 1) : labels[j] # labels[i]})

\* The index of the view: every row when show-all is on, else the rows under
\* the mask labels.isin(chosen), in table order.
ViewIndex(df, kind, sel, all) ==
    LET labels == Labels(df, kind)
    IN  IF all THEN [i \in 1..Len(df.rows) |-> i]
        ELSE Ascending({i \in 1..Len(df.rows) : labels[i] \in sel})

\* df.loc[mask, df.columns.tolist()]
TakeRows(df, index) ==
    [cols |-> df.cols, rows |-> [k \in 1..Len(index) |-> df.rows[index[k]]]]

\* show_product_images: the captions of the thumbnails, one per row of the
\* view whose Image cell is not blank.
show_product_images(df, kind) ==
    IF IsEmpty(df) \/ ~HasColumn(df, COL_IMAGE) THEN <<>>
    ELSE LET withImage == Ascending({i \in 1..Len(df.rows) :
                                        Strip(Get(RowAt(df, i), COL_IMAGE)) # <<>>})
         IN  [k \in 1..Len(withImage) |-> make_label(RowAt(df, withImage[k]), kind)]

BuildComparison(df, kind) ==
    IF kind = "sun" THEN build_sunscreen_comparison(df) ELSE build_clothing_comparison(df)

NotRendered ==
    [rendered |-> FALSE, info |-> FALSE, options |-> <<>>, view |-> <<>>,
     compared |-> FALSE, comp |-> <<>>, panel |-> FALSE, images |-> <<>>,
     display |-> EmptyTable]

\* The body of one "with tab:" block.
RenderTab(sheet) ==
    LET df == TableOf(sheet)
        kind == Kind(sheet)
    IN  IF IsEmpty(df)
        THEN [NotRendered EXCEPT !.rendered = TRUE, !.info = TRUE]
        ELSE LET index == ViewIndex(df, kind, chosen[sheet], show_all[sheet])
                 view == TakeRows(df, index)
                 compared == ~show_all[sheet] /\ 1 < Len(index) /\ Len(index) <= 3
                 comp == IF compared THEN BuildComparison(view, kind) ELSE <<>>
             IN  [rendered |-> TRUE,
                  info |-> FALSE,
                  options |-> Labels(df, kind),
                  view |-> index,
                  compared |-> compared,
                  comp |-> comp,
                  panel |-> Len(comp) >= 2,
                  images |-> show_product_images(view, kind),
                  display |-> safe_select_columns(view, DisplayCols(sheet))]

Init ==
    /\ pc = "idle"
    /\ arg = <<>>
    /\ ret = <<>>
    /\ source \in [Sheets -> {Unreadable} \cup {Readable(df) : df \in SunSheets \cup ClothSheets}]
    /\ \A s \in Sheets : source[s].ok => source[s].df \in SheetsOf(s)
    /\ cache = [s \in Sheets |-> [hit |-> FALSE, df |-> EmptyTable]]
    /\ reads = [s \in Sheets |-> 0]
    /\ runs = 0
    /\ suns = EmptyTable
    /\ cloth = EmptyTable
    /\ errors = <<>>
    /\ chosen = [s \in Sheets |-> {}]
    /\ show_all = [s \in Sheets |-> FALSE]
    /\ out = [s \in Sheets |-> NotRendered]

\* A script run starts: the page is cleared.
StartRun ==
    /\ runs < MaxRuns
    /\ runs' = runs + 1
    /\ pc' = "load_sun"
    /\ errors' = <<>>
    /\ out' = [s \in Sheets |-> NotRendered]

\* The page is opened or reloaded.
OpenPage ==
    /\ pc = "idle"
    /\ StartRun
    /\ UNCHANGED <<arg, ret, source, cache, reads, suns, cloth, chosen, show_all>>

\* The user changes a multiselect: any set of at most MAX_SELECTIONS of its
\* options.
Choose(sheet) ==
    /\ pc = "idle"
    /\ out[sheet].rendered /\ ~out[sheet].info
    /\ \E sel \in SUBSET {out[sheet].options[i] : i \in 1..Len(out[sheet].options)} :
          /\ Cardinality(sel) <= MAX_SELECTIONS
          /\ sel # chosen[sheet]
          /\ chosen' = [chosen EXCEPT ![sheet] = sel]
    /\ StartRun
    /\ UNCHANGED <<arg, ret, source, cache, reads, suns, cloth, show_all>>

\* The user flips a show-all toggle.
Toggle(sheet) ==
    /\ pc = "idle"
    /\ out[sheet].rendered /\ ~out[sheet].info
    /\ show_all' = [show_all EXCEPT ![sheet] = ~show_all[sheet]]
    /\ StartRun
    /\ UNCHANGED <<arg, ret, source, cache, reads, suns, cloth, chosen>>

\* The spreadsheet file is replaced, repaired or removed between runs.
EditSource(sheet) ==
    /\ pc = "idle"
    /\ \E s \in {Unreadable} \cup {Readable(df) : df \in SheetsOf(sheet)} :
          /\ s # source[sheet]
          /\ source' = [source EXCEPT ![sheet] = s]
    /\ UNCHANGED <<pc, arg, ret, cache, reads, runs, suns, cloth, errors, chosen,
                   show_all, out>>

\* The cache and the read count after one call of load_sheet.
CacheAfter(sheet, result) ==
    IF result.read /\ ~result.raised
    THEN [cache EXCEPT ![sheet] = [hit |-> TRUE, df |-> result.df]]
    ELSE cache

ReadsAfter(sheet, result) ==
    IF result.read THEN [reads EXCEPT ![sheet] = @ + 1] ELSE reads

LoadSunscreens ==
    /\ pc = "load_sun"
    /\ LET result == load_sheet(SHEET_SUN)
       IN  /\ suns' = (IF result.raised THEN EmptyTable ELSE result.df)
           /\ errors' = SurfacedErrors(SHEET_SUN, result)
           /\ cache' = CacheAfter(SHEET_SUN, result)
           /\ reads' = ReadsAfter(SHEET_SUN, result)
    /\ pc' = "load_clo"
    /\ UNCHANGED <<arg, ret, source, runs, cloth, chosen, show_all, out>>

LoadClothing ==
    /\ pc = "load_clo"
    /\ LET result == load_sheet(SHEET_CLO)
       IN  /\ cloth' = (IF result.raised THEN EmptyTable ELSE result.df)
           /\ errors' = SurfacedErrors(SHEET_CLO, result)
           /\ cache' = CacheAfter(SHEET_CLO, result)
           /\ reads' = ReadsAfter(SHEET_CLO, result)
    /\ pc' = "tab_sun"
    /\ UNCHANGED <<arg, ret, source, runs, suns, chosen, show_all, out>>

SunscreensTab ==
    /\ pc = "tab_sun"
    /\ out' = [out EXCEPT ![SHEET_SUN] = RenderTab(SHEET_SUN)]
    /\ pc' = "tab_clo"
    /\ UNCHANGED <<arg, ret, source, cache, reads, runs, suns, cloth, errors, chosen,
                   show_all>>

ClothingTab ==
    /\ pc = "tab_clo"
    /\ out' = [out EXCEPT ![SHEET_CLO] = RenderTab(SHEET_CLO)]
    /\ pc' = "idle"
    /\ UNCHANGED <<arg, ret, source, cache, reads, runs, suns, cloth, errors, chosen,
                   show_all>>

ChooseSun == Choose(SHEET_SUN)
ChooseCloth == Choose(SHEET_CLO)
ToggleSun == Toggle(SHEET_SUN)
ToggleCloth == Toggle(SHEET_CLO)
EditSunSource == EditSource(SHEET_SUN)
EditClothSource == EditSource(SHEET_CLO)

Next ==
    \/ OpenPage
    \/ ChooseSun
    \/ ChooseCloth
    \/ ToggleSun
    \/ ToggleCloth
    \/ EditSunSource
    \/ EditClothSource
    \/ LoadSunscreens
    \/ LoadClothing
    \/ SunscreensTab
    \/ ClothingTab

Spec == Init /\ [][Next]_vars

\* ------------------------------------------------------------------ claims

\* What the claim calls a decimal number: an optional sign, then digits with
\* at most one decimal point and at least one digit (surrounding blanks are
\* not counted against the text).
ClaimIsDecimal(t) ==
    LET u == Strip(t)
        b == IF u # <<>> /\ u[1] \in {"+", "-"} THEN Tail(u) ELSE u
    IN  /\ b # <<>>
        /\ \A i \in 1..Len(b) : b[i] \in DigitChars \cup {"."}
        /\ Cardinality({i \in 1..Len(b) : b[i] = "."}) <= 1
        /\ \E i \in 1..Len(b) : b[i] \in DigitChars

RECURSIVE ClaimScaled(_)
\* The integer the digits of b spell, the decimal point dropped.
ClaimScaled(b) ==
    IF b = <<>> THEN 0
    ELSE IF b[Len(b)] = "." THEN ClaimScaled(DropLast(b))
    ELSE 10 * ClaimScaled(DropLast(b)) + DigitVal(b[Len(b)])

RECURSIVE ClaimDigitsAfterPoint(_)
ClaimDigitsAfterPoint(b) ==
    IF b = <<>> \/ (\A i \in 1..Len(b) : b[i] # ".") THEN 0
    ELSE IF b[Len(b)] = "." THEN 0
    ELSE 1 + ClaimDigitsAfterPoint(DropLast(b))

\* The number a decimal text denotes, as a pair <<numerator, denominator>>.
ClaimDenoted(t) ==
    LET u == Strip(t)
        neg == u[1] = "-"
        b == IF u[1] \in {"+", "-"} THEN Tail(u) ELSE u
    IN  <<(IF neg THEN -1 ELSE 1) * ClaimScaled(b), Pow10(ClaimDigitsAfterPoint(b))>>

\* The text left after removing at most one trailing "+" and then at most one
\* trailing "%" from the trimmed text.
ClaimRemaining(s) ==
    LET t == Strip(s)
        a == IF t # <<>> /\ t[Len(t)] = "+" THEN SubSeq(t, 1, Len(t) - 1) ELSE t
    IN  IF a # <<>> /\ a[Len(a)] = "%" THEN SubSeq(a, 1, Len(a) - 1) ELSE a

ClaimAbsent(value) ==
    \/ value.isNone
    \/ Strip(value.text) = <<>>
    \/ Lower(Strip(value.text)) \in {<<"n", "a">>, <<"n", "/", "a">>, <<"n", "o", "n", "e">>}
    \/ ~ClaimIsDecimal(ClaimRemaining(value.text))

\* C3: to_float returns absent exactly when the input is null, blank, one of
\* the markers "na", "n/a", "none" in any case, or not a decimal number once a
\* trailing "+" and then a trailing "%" are removed; otherwise it returns the
\* number that the remaining text denotes.
C3_ToFloatDecimalOrAbsent ==
    pc = "done" =>
        IF ClaimAbsent(arg) THEN ret = None
        ELSE LET q == ClaimDenoted(ClaimRemaining(arg.text))
             IN  /\ ret.k = "num"
                 /\ ret.n * q[2] = q[1] * ret.d

\* The cell of a row under a column name, empty when the row lacks the column.
ClaimCell(row, col) ==
    LET at == {i \in 1..Len(row.cols) : row.cols[i] = col}
    IN  IF at = {} THEN <<>> ELSE row.cells[CHOOSE i \in at : TRUE]

\* Brand and name, trimmed, joined by " — ", an empty side omitted; when both
\* are empty, the first cell in column order that is not blank.
ClaimBase(row) ==
    LET b == Strip(ClaimCell(row, "Product Brand"))
        n == Strip(ClaimCell(row, "Product Name"))
        filled == {i \in 1..Len(row.cells) : Strip(row.cells[i]) # <<>>}
    IN  CASE b # <<>> /\ n # <<>> -> b \o <<" ", Dash, " ">> \o n
          [] b # <<>> /\ n = <<>> -> b
          [] b = <<>> /\ n # <<>> -> n
          [] OTHER -> IF filled = {} THEN <<>>
                      ELSE row.cells[CHOOSE i \in filled : \A j \in filled : i <= j]

\* The appended part: the trimmed volume (sunscreen) or material (clothing),
\* unless it is empty or is "nan" (in any letter case when anyCase).
ClaimAppended(row, kind, anyCase) ==
    LET f == Strip(ClaimCell(row, IF kind = "sun" THEN "Volume (ml)" ELSE "Material"))
        isNan == IF anyCase THEN Lower(f) = <<"n", "a", "n">> ELSE f = <<"n", "a", "n">>
    IN  IF f = <<>> \/ isNan THEN <<>>
        ELSE <<" ", Dash, " ">> \o f \o (IF kind = "sun" THEN <<" ", "m", "l">> ELSE <<>>)

\* t without its leading and trailing blanks and dashes.
ClaimTrimSeparators(t) ==
    LET keep == {i \in 1..Len(t) : t[i] \notin {" ", Dash}}
    IN  IF keep = {} THEN <<>>
        ELSE SubSeq(t, CHOOSE i \in keep : \A j \in keep : i <= j,
                       CHOOSE i \in keep : \A j \in keep : j <= i)

ClaimLabel(row, kind, anyCase) ==
    ClaimTrimSeparators(ClaimBase(row) \o ClaimAppended(row, kind, anyCase))

\* C5 (as stated): the label is the trimmed brand and name joined by " — "
\* (an empty side omitted, the first non-empty cell when both are empty),
\* followed by " — <volume> ml" or " — <material>" when that field is
\* non-empty and is not the text "nan", with separators stripped at both ends.
C5_LabelAsStated ==
    pc = "done" => ret = ClaimLabel(arg.row, arg.kind, FALSE)

\* C5 (amended): as above, but the volume or material is left out when it is
\* "nan" in any letter case ("NaN", "NAN", ...), not only the lower-case text.
C5_LabelNanAnyCase ==
    pc = "done" => ret = ClaimLabel(arg.row, arg.kind, TRUE)

\* A sunscreen row with a brand whose volume is "NaN": nothing is appended.
C5_Witness ==
    /\ pc = "done"
    /\ arg.kind = "sun"
    /\ Strip(ClaimCell(arg.row, "Product Brand")) = <<"A">>
    /\ Strip(ClaimCell(arg.row, "Product Name")) = <<"S">>
    /\ ClaimCell(arg.row, "Volume (ml)") = <<"N", "a", "N">>
    /\ ret = <<"A", " ", Dash, " ", "S">>

\* The table's i-th row as a record [cols, cells].
ClaimRow(df, i) == [cols |-> df.cols, cells |-> df.rows[i]]

ClaimParsed(df, i, col) == to_float([isNone |-> FALSE, text |-> ClaimCell(ClaimRow(df, i), col)])

ClaimMetricColumns == {"SPF (lab)", "UVA Protection (Lab)", "Blue Light Protection (lab)",
                       "Visible Protection (lab)"}

\* C1: the builders return exactly one record per input row, in input row
\* order, for a table of any row count and any column set; a row in which no
\* metric parses yields a record whose metric fields are all absent.
C1_OneRecordPerRow ==
    pc = "done" =>
        /\ Len(ret) = Len(arg.df.rows)
        /\ \A i \in 1..Len(arg.df.rows) :
              /\ ret[i].Product = make_label(ClaimRow(arg.df, i), arg.kind)
              /\ (\A c \in ClaimMetricColumns : ClaimParsed(arg.df, i, c) = None)
                    => /\ ret[i].SPF_lab = None
                       /\ ret[i].UVA_PF_lab = None
                       /\ ret[i].Blue_light_lab = None
                       /\ ret[i].Visible_lab = None

\* C2: in every sunscreen record the price per ml is price / volume when the
\* price cell and the volume cell both parse to a number and the volume is
\* not zero, and is absent in every other case; it is never infinity.
C2_PricePerMl ==
    (pc = "done" /\ arg.kind = "sun") =>
        \A i \in 1..Len(ret) :
            LET p == ClaimParsed(arg.df, i, "Price (GBP)")
                v == ClaimParsed(arg.df, i, "Volume (ml)")
                r == ret[i].Price_per_ml
            IN  /\ r.k # "inf"
                /\ IF p.k = "num" /\ v.k = "num" /\ v.n # 0
                   THEN r.k = "num" /\ r.n * (p.d * v.n) = (p.n * v.d) * r.d
                   ELSE r = None

\* df with one more column, named col, every cell of it empty.
ClaimWithEmptyColumn(df, col) ==
    [cols |-> Append(df.cols, col),
     rows |-> [i \in 1..Len(df.rows) |-> Append(df.rows[i], <<>>)]]

ClaimReferenced(kind) ==
    ClaimMetricColumns \cup {"Price (GBP)"} \cup (IF kind = "sun" THEN {"Volume (ml)"} ELSE {})

ClaimBuild(df, kind) ==
    IF kind = "sun" THEN build_sunscreen_comparison(df) ELSE build_clothing_comparison(df)

\* C8: the records built from a table that lacks a referenced column are the
\* records built from the same table with that column present and empty.
C8_MissingColumnAsEmpty ==
    pc = "done" =>
        \A c \in ClaimReferenced(arg.kind) :
            (\A j \in 1..Len(arg.df.cols) : arg.df.cols[j] # c)
                => ret = ClaimBuild(ClaimWithEmptyColumn(arg.df, c), arg.kind)

\* The positions of the desired list whose column exists in the table.
ClaimExisting(df, desired) ==
    {p \in 1..Len(desired) : \E j \in 1..Len(df.cols) : df.cols[j] = desired[p]}

\* C4: safe_select_columns returns the same rows restricted to the desired
\* columns that exist in the table, in the order of the desired list; the
\* other desired columns are left out, and when none exists the result has
\* the same row count and no column.
C4_ProjectInDesiredOrder ==
    pc = "done" =>
        LET P == ClaimExisting(arg.df, arg.cols)
        IN  /\ Len(ret.cols) = Cardinality(P)
            /\ \A p \in P :
                  ret.cols[Cardinality({q \in P : q < p}) + 1] = arg.cols[p]
            /\ Len(ret.rows) = Len(arg.df.rows)
            /\ \A i \in 1..Len(ret.rows) :
                  /\ Len(ret.rows[i]) = Len(ret.cols)
                  /\ \A j \in 1..Len(ret.cols) :
                        ret.rows[i][j] = ClaimCell(ClaimRow(arg.df, i), ret.cols[j])
            /\ (P = {} => ret.cols = <<>>)

\* The documented example: columns [A, B, C], desired [C, A, Z].
C4_Witness ==
    /\ pc = "done"
    /\ arg.df.cols = <<"A", "B", "C">>
    /\ arg.cols = <<"C", "A", "Z">>
    /\ Len(arg.df.rows) = 2
    /\ ret.cols = <<"C", "A">>
    /\ ret.rows[2] = <<<<"C", "2">>, <<"A", "2">>>>

\* C6 (as stated): the source is read at most once per (path, sheet) pair.
C6_ReadAtMostOncePerSheet ==
    \A s \in {"Sunscreens", "Clothing"} : reads[s] <= 1

\* C6 (amended): once a call of load_sheet for a pair has succeeded, every
\* later call with that pair reads nothing and returns the table of that
\* successful call, whatever has become of the source; a call that fails
\* stores nothing, so the next call reads the source again.
C6_NoReadAfterSuccess ==
    [][/\ \A s \in {"Sunscreens", "Clothing"} :
             cache[s].hit => /\ reads'[s] = reads[s]
                             /\ cache'[s] = cache[s]
       /\ (pc = "load_sun" /\ cache["Sunscreens"].hit) => suns' = cache["Sunscreens"].df
       /\ (pc = "load_clo" /\ cache["Clothing"].hit) => cloth' = cache["Clothing"].df
       /\ \A s \in {"Sunscreens", "Clothing"} :
             (~cache[s].hit /\ pc = (IF s = "Sunscreens" THEN "load_sun" ELSE "load_clo"))
                => reads'[s] = reads[s] + 1]_vars

\* A second run has just called load_sheet for the sunscreens after the file
\* changed: one read in all, and the table is the cached one, not the file's.
C6_Witness ==
    /\ pc = "load_clo"
    /\ runs >= 2
    /\ reads["Sunscreens"] = 1
    /\ cache["Sunscreens"].hit
    /\ ~source["Sunscreens"].ok
    /\ suns = cache["Sunscreens"].df
    /\ Len(suns.rows) = 4

ClaimSurfaced(s) == \E k \in 1..Len(errors) : errors[k] = s

\* C7: when reading a sheet fails, that category's table is the empty table,
\* an error naming the sheet is surfaced, and the run goes on: the failed tab
\* shows the no-data message and the other category is loaded and rendered
\* from its own data.
C7_FailedSheetContained ==
    /\ (pc \in {"load_clo", "tab_sun", "tab_clo", "idle"} /\ runs > 0 /\ ~cache["Sunscreens"].hit)
          => (ClaimSurfaced("Sunscreens") /\ suns = [cols |-> <<>>, rows |-> <<>>])
    /\ (pc \in {"tab_sun", "tab_clo", "idle"} /\ runs > 0 /\ ~cache["Clothing"].hit)
          => (ClaimSurfaced("Clothing") /\ cloth = [cols |-> <<>>, rows |-> <<>>])
    /\ (pc = "idle" /\ runs > 0) =>
          \A s \in {"Sunscreens", "Clothing"} :
              /\ out[s].rendered
              /\ ~cache[s].hit => (out[s].info /\ out[s].display.rows = <<>>)
              /\ cache[s].hit =>
                    LET df == cache[s].df
                        own == IF s = "Sunscreens" THEN suns ELSE cloth
                    IN  /\ own = df
                        /\ ~ClaimSurfaced(s)
                        /\ out[s].info = (Len(df.rows) = 0)
                        /\ Len(df.rows) > 0 =>
                              /\ Len(out[s].options) = Len(df.rows)
                              /\ Len(out[s].display.rows) = Len(out[s].view)
                              /\ \A k \in 1..Len(out[s].view) :
                                    \A j \in 1..Len(out[s].display.cols) :
                                        out[s].display.rows[k][j] =
                                            ClaimCell(ClaimRow(df, out[s].view[k]),
                                                      out[s].display.cols[j])

\* A finished run in which the sunscreen sheet could not be read while the
\* clothing tab shows both garments.
C7_Witness ==
    /\ pc = "idle"
    /\ ~cache["Sunscreens"].hit
    /\ errors = <<"Sunscreens">>
    /\ out["Sunscreens"].info
    /\ cache["Clothing"].hit
    /\ ~out["Clothing"].info
    /\ Len(out["Clothing"].display.rows) = 2

ClaimMembers(v) == {v[k] : k \in 1..Len(v)}

\* C9: in every render of a tab with data, the view is the whole table when
\* show-all is on, and otherwise exactly the rows whose make_label output is
\* one of the chosen labels, in table order.
C9_ViewIsLabelMatch ==
    \A s \in {"Sunscreens", "Clothing"} :
        (out[s].rendered /\ ~out[s].info) =>
            LET df == IF s = "Sunscreens" THEN suns ELSE cloth
                kind == IF s = "Sunscreens" THEN "sun" ELSE "cloth"
                v == out[s].view
            IN  /\ \A k \in 1..Len(v) : v[k] \in 1..Len(df.rows)
                /\ \A k \in 1..(Len(v) - 1) : v[k] < v[k + 1]
                /\ show_all[s] => ClaimMembers(v) = 1..Len(df.rows)
                /\ ~show_all[s] =>
                      \A i \in 1..Len(df.rows) :
                          (i \in ClaimMembers(v)) <=>
                              (make_label(ClaimRow(df, i), kind) \in chosen[s])
                /\ Len(out[s].display.rows) = Len(v)

\* One label is chosen and the view holds the two rows that share it.
C9_Witness ==
    /\ out["Sunscreens"].rendered
    /\ ~show_all["Sunscreens"]
    /\ Len(suns.rows) = 4
    /\ chosen["Sunscreens"] = {<<"A", " ", Dash, " ", "5", "0", " ", "m", "l">>}
    /\ out["Sunscreens"].view = <<1, 2>>

\* C10: with show-all off and at most three labels chosen, the view of the
\* category (table, thumbnails, comparison) holds at most three rows.
C10_AtMostThreeRows ==
    \A s \in {"Sunscreens", "Clothing"} :
        (out[s].rendered /\ ~out[s].info /\ ~show_all[s] /\ Cardinality(chosen[s]) <= 3)
            => /\ Len(out[s].view) <= 3
               /\ Len(out[s].display.rows) <= 3
               /\ Len(out[s].comp) <= 3

====
